---- MODULE Spec2Model ----
(***************************************************************************)
(* Professor/Course API (src/main.py, src/models/professor.py,             *)
(* src/models/course.py): two in-memory dicts, `professors` and `courses`, *)
(* and the five request handlers of each.                                  *)
(*                                                                         *)
(* Representation of Python values:                                        *)
(*   str            a sequence of one-character strings                    *)
(*   Optional value a sequence of length 0 (None) or 1 (<<v>>)             *)
(*   dict           a function from key names to Optional values           *)
(*   validated model (ProfessorRead, CourseRead, ...)  a record of bare    *)
(*                  values                                                 *)
(*   datetime       a natural number (ticks of the UTC clock)              *)
(***************************************************************************)
EXTENDS Integers, Sequences, FiniteSets, TLC

VARIABLES
    professors,  \* main.py:25  dict key -> ProfessorRead
    courses,     \* main.py:26  dict key -> CourseRead
    now,         \* the last value datetime.utcnow() returned
    req,         \* the request handled last
    resp,        \* its response: [status, accessed (the handler body ran)]
    threads      \* ConcSpec only: the worker threads' positions and locals

vars == <<professors, courses, now, req, resp, threads>>

-----------------------------------------------------------------------------
(* Bounds of the model *)

MaxTime == 1

NumThreads == 2

-----------------------------------------------------------------------------
(* Python values *)

None == << >>

Some(v) == <<v>>

IsNone(o) == Len(o) = 0

Val(o) == o[1]

\* bool(x) of an Optional[str]: None and "" are falsy
Truthy(o) == Len(o) = 1 /\ Len(o[1]) > 0

EmptyDict == [f \in {} |-> None]

\* dict.update
DictUpdate(d, u) ==
    [f \in (DOMAIN d) \cup (DOMAIN u) |-> IF f \in DOMAIN u THEN u[f] ELSE d[f]]

\* BaseModel.model_dump() of a validated model
model_dump(m) == [f \in DOMAIN m |-> Some(m[f])]

UpperLetters ==
    <<"A","B","C","D","E","F","G","H","I","J","K","L","M",
      "N","O","P","Q","R","S","T","U","V","W","X","Y","Z">>

LowerLetters ==
    <<"a","b","c","d","e","f","g","h","i","j","k","l","m",
      "n","o","p","q","r","s","t","u","v","w","x","y","z">>

Digits == {"0","1","2","3","4","5","6","7","8","9"}

Range(s) == {s[i] : i \in DOMAIN s}

UpperSet == Range(UpperLetters)

LowerSet == Range(LowerLetters)

\* str.lower(), character by character
LowerChar(c) ==
    IF c \in UpperSet
    THEN LowerLetters[CHOOSE i \in DOMAIN UpperLetters : UpperLetters[i] = c]
    ELSE c

lower(s) == [i \in DOMAIN s |-> LowerChar(s[i])]

\* Python's `a in b` for strings
IsSubstring(a, b) ==
    \E i \in 0..(Len(b) - Len(a)) : \A j \in 1..Len(a) : b[i + j] = a[j]

-----------------------------------------------------------------------------
(* Identifier patterns *)

IdMinLetters == 2
IdMaxLetters == 3
IdMinDigits == 1
IdMaxDigits == 4
CourseIdLetters == 4
CourseIdDigits == 4

\* ^[a-z]{2,3}\d{1,4}$
MatchesIdType(s) ==
    \E n \in IdMinLetters..IdMaxLetters : \E m \in IdMinDigits..IdMaxDigits :
        /\ Len(s) = n + m
        /\ \A i \in 1..n : s[i] \in LowerSet
        /\ \A i \in (n + 1)..(n + m) : s[i] \in Digits

\* ^[A-Z]{4}\d{4}$
MatchesCourseIDType(s) ==
    /\ Len(s) = CourseIdLetters + CourseIdDigits
    /\ \A i \in 1..CourseIdLetters : s[i] \in UpperSet
    /\ \A i \in (CourseIdLetters + 1)..(CourseIdLetters + CourseIdDigits) :
           s[i] \in Digits

\* EmailStr: exactly one "@", a non-empty local part and a domain holding a
\* dot with something on both sides of it.
ValidEmail(e) ==
    \E i \in 2..(Len(e) - 3) :
        /\ e[i] = "@"
        /\ \A j \in DOMAIN e : e[j] = "@" => j = i
        /\ \E k \in (i + 2)..(Len(e) - 1) : e[k] = "."

\* The value EmailStr validates to: the address with its domain in lower case.
NormalizeEmail(e) ==
    LET at == CHOOSE i \in DOMAIN e : e[i] = "@"
    IN  [i \in DOMAIN e |-> IF i > at THEN LowerChar(e[i]) ELSE e[i]]

-----------------------------------------------------------------------------
(* models/professor.py *)

Has(d, f) == f \in DOMAIN d /\ ~IsNone(d[f])

\* List[courseIDType]
ValidCourseList(l) == \A i \in DOMAIN l : MatchesCourseIDType(l[i])

ProfessorBaseFields == {"first_name", "last_name", "id", "email", "courses"}

\* ProfessorBase(**d). kind is "ok", "invalid" (pydantic ValidationError) or
\* "type_error": courses is missing and its default_factory, typing.List,
\* cannot be called.
ProfessorBase(d) ==
    IF "courses" \notin DOMAIN d
    THEN [kind |-> "type_error", model |-> EmptyDict]
    ELSE IF /\ Has(d, "first_name")
            /\ Has(d, "last_name")
            /\ Has(d, "id") /\ MatchesIdType(Val(d.id))
            /\ Has(d, "email") /\ ValidEmail(Val(d.email))
            /\ Has(d, "courses") /\ ValidCourseList(Val(d.courses))
         THEN [kind |-> "ok",
               model |-> [first_name |-> Val(d.first_name),
                          last_name  |-> Val(d.last_name),
                          id         |-> Val(d.id),
                          email      |-> NormalizeEmail(Val(d.email)),
                          courses    |-> Val(d.courses)]]
         ELSE [kind |-> "invalid", model |-> EmptyDict]

\* ProfessorCreate adds nothing to ProfessorBase
ProfessorCreate(d) == ProfessorBase(d)

\* ProfessorRead(**d): created_at and updated_at default to utcnow(), read in
\* that order (t1, then t2) when the dict does not give them.
ProfessorRead(d, t1, t2) ==
    LET b == ProfessorBase(d)
    IN  IF b.kind # "ok" THEN b
        ELSE [kind |-> "ok",
              model |-> [first_name |-> b.model.first_name,
                         last_name  |-> b.model.last_name,
                         id         |-> b.model.id,
                         email      |-> b.model.email,
                         courses    |-> b.model.courses,
                         created_at |-> IF "created_at" \in DOMAIN d
                                        THEN Val(d.created_at) ELSE t1,
                         updated_at |-> IF "updated_at" \in DOMAIN d
                                        THEN Val(d.updated_at) ELSE t2]]

\* One field of an update model: unset, None, or a value of the field's type.
ProfessorUpdateFieldOk(d, f) ==
    f \in DOMAIN d /\ ~IsNone(d[f]) =>
        CASE f = "id" -> MatchesIdType(Val(d[f]))
          [] f = "email" -> ValidEmail(Val(d[f]))
          [] f = "courses" -> ValidCourseList(Val(d[f]))
          [] OTHER -> TRUE

\* A variant of the update model that keeps the keys that are no field of it
\* (extra = "allow")
ProfessorUpdate_KeepsExtraKeys(d) ==
    IF \A f \in ProfessorBaseFields : ProfessorUpdateFieldOk(d, f)
    THEN [kind |-> "ok",
          model |-> [f \in DOMAIN d |->
                        IF f = "email" /\ ~IsNone(d[f])
                        THEN Some(NormalizeEmail(Val(d[f])))
                        ELSE d[f]]]
    ELSE [kind |-> "invalid", model |-> EmptyDict]

\* ProfessorUpdate(**d).model_dump(exclude_unset=True): the fields the body
\* sets, validated; keys that are no field of the model are ignored.
ProfessorUpdate(d) ==
    IF \A f \in ProfessorBaseFields : ProfessorUpdateFieldOk(d, f)
    THEN [kind |-> "ok",
          model |-> [f \in (DOMAIN d) \cap ProfessorBaseFields |->
                        IF f = "email" /\ ~IsNone(d[f])
                        THEN Some(NormalizeEmail(Val(d[f])))
                        ELSE d[f]]]
    ELSE [kind |-> "invalid", model |-> EmptyDict]

-----------------------------------------------------------------------------
(* models/course.py *)

CourseUpdateFields == {"courseID", "courseName", "instructor", "assignment"}

\* CourseBase(**d). instructor is validated as a ProfessorBase; assignment,
\* declared List[str] with default None, is None when the dict leaves it out
\* (a default is not validated) and must be a list when the dict gives it.
\* The model keeps assignment as an Optional value for that reason.
CourseBase(d) ==
    LET ins == IF Has(d, "instructor") THEN ProfessorBase(Val(d.instructor))
               ELSE [kind |-> "invalid", model |-> EmptyDict]
    IN  IF ins.kind = "type_error" THEN ins
        ELSE IF /\ Has(d, "courseID") /\ MatchesCourseIDType(Val(d.courseID))
                /\ Has(d, "courseName")
                /\ ins.kind = "ok"
                /\ ("assignment" \in DOMAIN d => ~IsNone(d.assignment))
             THEN [kind |-> "ok",
                   model |-> [courseID   |-> Val(d.courseID),
                              courseName |-> Val(d.courseName),
                              instructor |-> ins.model,
                              assignment |-> IF "assignment" \in DOMAIN d
                                             THEN d.assignment ELSE None]]
             ELSE [kind |-> "invalid", model |-> EmptyDict]

\* CourseCreate adds nothing to CourseBase
CourseCreate(d) == CourseBase(d)

\* model_dump() of a course model: the nested instructor is dumped to a dict
course_model_dump(m) ==
    [f \in DOMAIN m |->
        CASE f = "instructor" -> Some(model_dump(m[f]))
          [] f = "assignment" -> m[f]
          [] OTHER -> Some(m[f])]

\* CourseRead(**d): created_at and updated_at default to utcnow(), read in
\* that order (t1, then t2) when the dict does not give them.
CourseRead(d, t1, t2) ==
    LET b == CourseBase(d)
    IN  IF b.kind # "ok" THEN b
        ELSE [kind |-> "ok",
              model |-> [courseID   |-> b.model.courseID,
                         courseName |-> b.model.courseName,
                         instructor |-> b.model.instructor,
                         assignment |-> b.model.assignment,
                         created_at |-> IF "created_at" \in DOMAIN d
                                        THEN Val(d.created_at) ELSE t1,
                         updated_at |-> IF "updated_at" \in DOMAIN d
                                        THEN Val(d.updated_at) ELSE t2]]

\* CourseUpdate(**d).model_dump(exclude_unset=True)
CourseUpdate(d) ==
    LET ins == IF Has(d, "instructor") THEN ProfessorBase(Val(d.instructor))
               ELSE [kind |-> "ok", model |-> EmptyDict]
    IN  IF ins.kind = "type_error" THEN ins
        ELSE IF /\ (Has(d, "courseID") => MatchesCourseIDType(Val(d.courseID)))
                /\ ins.kind = "ok"
             THEN [kind |-> "ok",
                   model |-> [f \in (DOMAIN d) \cap CourseUpdateFields |->
                                 IF f = "instructor" /\ ~IsNone(d[f])
                                 THEN Some(model_dump(ins.model))
                                 ELSE d[f]]]
             ELSE [kind |-> "invalid", model |-> EmptyDict]

-----------------------------------------------------------------------------
(* What clients send *)

Str_John == <<"J","o","h","n">>
Str_JOHN == <<"J","O","H","N">>
Str_Smith == <<"S","m","i","t","h">>
Str_Smyth == <<"S","m","y","t","h">>
Str_Tony == <<"T","o","n","y">>
Str_Li == <<"L","i">>
Str_Cloud == <<"C","l","o","u","d">>
Str_Learning == <<"L","e","a","r","n","i","n","g">>
Str_HW1 == <<"H","W","1">>

ProfId1 == <<"a","b","1">>
ProfId2 == <<"c","d","2">>
BadProfId == <<"A","B","1">>

CourseId1 == <<"C","O","M","S","4","1","5","3">>
CourseId2 == <<"C","O","M","S","4","2","5","2">>
BadCourseId == <<"c","o","m","s","4","1","5","3">>

Email1 == <<"a","b","@","c","u",".","e","d","u">>
Email2 == <<"c","d","@","C","U",".","E","D","U">>
BadEmail == <<"a","b",".","e","d","u">>

ProfessorBody(first, last, id, email, cs) ==
    [first_name |-> Some(first), last_name |-> Some(last), id |-> Some(id),
     email |-> Some(email), courses |-> Some(cs)]

Professor1 == ProfessorBody(Str_John, Str_Smith, ProfId1, Email1, <<CourseId1>>)

Professor2 == ProfessorBody(Str_Tony, Str_Li, ProfId2, Email2, << >>)

\* a body that leaves the key `key` out
Without(d, key) == [f \in (DOMAIN d) \ {key} |-> d[f]]

ProfessorBodies ==
    { Professor1,
      Professor2,
      ProfessorBody(Str_John, Str_Smith, BadProfId, Email1, <<CourseId1>>),
      ProfessorBody(Str_John, Str_Smith, ProfId1, BadEmail, <<CourseId1>>),
      Without(Professor2, "courses") }

Only(key, value) == [f \in {key} |-> value]

\* PATCH /professors/{professor_id}: (path parameter, body)
ProfessorPatches ==
    ({ProfId1, ProfId2} \X
        { EmptyDict,
          Only("id", Some(ProfId2)),
          Only("email", Some(BadEmail)),
          Only("first_name", None),
          Only("created_at", Some(0)) })
    \cup { <<BadProfId, EmptyDict>>, <<ProfId1, Only("id", Some(BadProfId))>> }

ProfIdInputs == {ProfId1, ProfId2, BadProfId}

CourseBody(id, name, ins, asg) ==
    [courseID |-> Some(id), courseName |-> Some(name), instructor |-> Some(ins),
     assignment |-> Some(asg)]

Course1 == CourseBody(CourseId1, Str_Cloud, Professor1, <<Str_HW1>>)

Course2 == CourseBody(CourseId2, Str_Learning, Professor2, << >>)

CourseBodies ==
    { Course1,
      Course2,
      Without(Course2, "assignment"),
      CourseBody(BadCourseId, Str_Cloud, Professor1, <<Str_HW1>>),
      CourseBody(CourseId1, Str_Cloud, Without(Professor1, "courses"), << >>) }

\* PATCH /courses/{course_id}: (path parameter, body)
CoursePatches ==
    ({CourseId1, CourseId2} \X
        { EmptyDict,
          Only("courseID", Some(CourseId2)),
          Only("assignment", None) })
    \cup { <<BadCourseId, EmptyDict>>,
           <<CourseId1, Only("courseID", Some(BadCourseId))>>,
           <<CourseId1, Only("instructor", Some(Without(Professor1, "courses")))>> }

CourseIdInputs == {CourseId1, CourseId2, BadCourseId}

\* GET /professors and GET /courses: the query parameters given. Str_Empty is
\* a parameter given with no value (?first_name=)
Str_Empty == << >>

ProfessorQueries ==
    { EmptyDict,
      Only("first_name", Some(Str_JOHN)),
      Only("id", Some(ProfId1)),
      Only("id", Some(BadProfId)),
      Only("first_name", Some(Str_Empty)),
      DictUpdate(Only("first_name", Some(Str_JOHN)),
                 Only("last_name", Some(lower(Str_Smyth)))) }

CourseQueries ==
    { EmptyDict,
      Only("course_id", Some(CourseId1)),
      Only("course_id", Some(BadCourseId)),
      Only("course_name", Some(lower(Str_Cloud))),
      Only("instructor_id", Some(ProfId1)),
      Only("instructor_id", Some(BadProfId)),
      Only("instructor_id", Some(Str_Empty)),
      DictUpdate(Only("course_name", Some(lower(Str_Learning))),
                 Only("instructor_id", Some(ProfId1))) }

-----------------------------------------------------------------------------
(* The request being handled and its response *)

Request(op, path, body, query) ==
    [op |-> op, path |-> path, body |-> body, query |-> query]

\* accessed: the handler's body ran (every handler starts by reading its store)
Response(status, accessed) == [status |-> status, accessed |-> accessed]

\* datetime.utcnow() after the clock showed t: the clock does not go back
ClockRead(t) == t..MaxTime

\* d[key] = value
Put(d, key, value) ==
    [k \in (DOMAIN d) \cup {key} |-> IF k = key THEN value ELSE d[k]]

\* A variant of the removal that empties the dict (d.clear())
Del_Clear(d, key) == [k \in {} |-> d[k]]

\* del d[key]
Del(d, key) == [k \in (DOMAIN d) \ {key} |-> d[k]]

NoRequest == Request("none", None, EmptyDict, EmptyDict)

\* The threads of the pool that runs the handlers (they are plain `def`s)
Threads == 1..NumThreads

\* pc: where the thread is in its handler; op, path, body: its request;
\* local: stored_professor_data once read; status: its answer
IdleThread ==
    [pc |-> "idle", op |-> "none", path |-> None, body |-> EmptyDict,
     local |-> EmptyDict, status |-> 0]

NoResponse == Response(0, FALSE)

\* The server takes a request when it is handling none
Idle == req = NoRequest

Init ==
    /\ professors = EmptyDict
    /\ courses = EmptyDict
    /\ now = 0
    /\ req = NoRequest
    /\ resp = NoResponse
    /\ threads = [t \in Threads |-> IdleThread]

-----------------------------------------------------------------------------
(* main.py: professor endpoints, one request handled at a time *)

\* A variant of the scan that looks the id up among the dict keys
ProfessorIdExists_ByKey(store, id) == id \in DOMAIN store

\* any(p.id == professor.id for p in professors.values())
ProfessorIdExists(store, id) == \E k \in DOMAIN store : store[k].id = id

\* The status of a request FastAPI answers itself, before the handler runs:
\* 500 when building the body raised a TypeError, 422 when a parameter or the
\* body is invalid; 0 when the handler is called.
Rejected(pathOk, bodyKind) ==
    IF bodyKind = "type_error" THEN 500
    ELSE IF ~pathOk \/ bodyKind = "invalid" THEN 422
    ELSE 0

\* What create_professor answers before it builds the record: FastAPI's own
\* rejection, 400 when the scan finds the id, 0 when the record is built.
create_professor_check(store, body) ==
    LET professor == ProfessorCreate(body)
        early == Rejected(TRUE, professor.kind)
    IN  IF early # 0 THEN early
        ELSE IF ProfessorIdExists(store, professor.model.id) THEN 400
        ELSE 0

create_professor ==
    \E body \in ProfessorBodies :
        LET professor == ProfessorCreate(body)
            check == create_professor_check(professors, body)
        IN  /\ Idle
            /\ req' = Request("create_professor", None, body, EmptyDict)
            /\ UNCHANGED <<courses, threads>>
            /\ \/ /\ check # 0
                  /\ resp' = Response(check, check = 400)
                  /\ UNCHANGED <<professors, now>>
               \/ /\ check = 0
                  /\ \E t1 \in ClockRead(now) : \E t2 \in ClockRead(t1) :
                        LET new_professor ==
                                ProfessorRead(model_dump(professor.model), t1, t2)
                        IN  /\ now' = t2
                            /\ IF new_professor.kind = "ok"
                               THEN /\ professors' = Put(professors,
                                                         new_professor.model.id,
                                                         new_professor.model)
                                    /\ resp' = Response(201, TRUE)
                               ELSE /\ professors' = professors
                                    /\ resp' = Response(500, TRUE)

\* A variant of the filter that compares the names as they are written
list_professors_results_CaseSensitive(store, q) ==
    { k \in DOMAIN store :
        /\ ("first_name" \in DOMAIN q /\ Truthy(q.first_name)
               => store[k].first_name = Val(q.first_name))
        /\ ("last_name" \in DOMAIN q /\ Truthy(q.last_name)
               => store[k].last_name = Val(q.last_name))
        /\ ("id" \in DOMAIN q /\ Truthy(q.id) => store[k].id = Val(q.id)) }

\* The keys of the records list_professors returns
list_professors_results(store, q) ==
    { k \in DOMAIN store :
        /\ ("first_name" \in DOMAIN q /\ Truthy(q.first_name)
               => lower(store[k].first_name) = lower(Val(q.first_name)))
        /\ ("last_name" \in DOMAIN q /\ Truthy(q.last_name)
               => lower(store[k].last_name) = lower(Val(q.last_name)))
        /\ ("id" \in DOMAIN q /\ Truthy(q.id) => store[k].id = Val(q.id)) }

\* first_name, last_name and id are Optional[str]: nothing is rejected
list_professors ==
    \E q \in ProfessorQueries :
        /\ Idle
        /\ req' = Request("list_professors", None, EmptyDict, q)
        /\ resp' = Response(200, TRUE)
        /\ UNCHANGED <<professors, courses, now, threads>>

\* The status of GET /professors/{professor_id} and whether the handler ran
get_professor_response(store, professor_id) ==
    IF ~MatchesIdType(professor_id) THEN Response(422, FALSE)
    ELSE IF professor_id \notin DOMAIN store THEN Response(404, TRUE)
    ELSE Response(200, TRUE)

get_professor ==
    \E professor_id \in ProfIdInputs :
        /\ Idle
        /\ req' = Request("get_professor", Some(professor_id), EmptyDict, EmptyDict)
        /\ resp' = get_professor_response(professors, professor_id)
        /\ UNCHANGED <<professors, courses, now, threads>>

\* A variant of the merge that leaves out line 87: updated_at is not refreshed
MergedProfessor_StaleUpdatedAt(stored, update_dict, t) ==
    ProfessorRead(DictUpdate(model_dump(stored), update_dict), t, t)

\* A variant of the merge that builds the record without validating it (as
\* model_construct or model_copy(update=...) would)
MergedProfessor_Unvalidated(stored, update_dict, t) ==
    LET d == DictUpdate(DictUpdate(model_dump(stored), update_dict),
                        Only("updated_at", Some(t)))
    IN  [kind |-> "ok",
         model |-> [f \in DOMAIN d |-> IF IsNone(d[f]) THEN None ELSE Val(d[f])]]

\* main.py:82-89: the stored record's dump, the update's fields laid over it,
\* updated_at set to utcnow() = t, validated as a ProfessorRead
MergedProfessor(stored, update_dict, t) ==
    ProfessorRead(
        DictUpdate(DictUpdate(model_dump(stored), update_dict),
                   Only("updated_at", Some(t))),
        t, t)

update_professor ==
    \E in \in ProfessorPatches :
        LET professor_id == in[1]
            update_data == ProfessorUpdate(in[2])
            early == Rejected(MatchesIdType(professor_id), update_data.kind)
        IN  /\ Idle
            /\ req' = Request("update_professor", Some(professor_id), in[2], EmptyDict)
            /\ UNCHANGED <<courses, threads>>
            /\ \/ /\ early # 0
                  /\ resp' = Response(early, FALSE)
                  /\ UNCHANGED <<professors, now>>
               \/ /\ early = 0
                  /\ professor_id \notin DOMAIN professors
                  /\ resp' = Response(404, TRUE)
                  /\ UNCHANGED <<professors, now>>
               \/ /\ early = 0
                  /\ professor_id \in DOMAIN professors
                  /\ \E t \in ClockRead(now) :
                        LET updated_professor ==
                                MergedProfessor(professors[professor_id],
                                                update_data.model, t)
                        IN  /\ now' = t
                            /\ IF updated_professor.kind = "ok"
                               THEN /\ professors' = Put(professors, professor_id,
                                                         updated_professor.model)
                                    /\ resp' = Response(200, TRUE)
                               ELSE /\ professors' = professors
                                    /\ resp' = Response(500, TRUE)

\* A variant of delete_professor that cascades: the courses whose instructor
\* is the deleted professor go with it
delete_professor_Cascade ==
    \E professor_id \in ProfIdInputs :
        /\ Idle
        /\ req' = Request("delete_professor", Some(professor_id), EmptyDict, EmptyDict)
        /\ UNCHANGED <<now, threads>>
        /\ \/ /\ ~MatchesIdType(professor_id)
              /\ resp' = Response(422, FALSE)
              /\ UNCHANGED <<professors, courses>>
           \/ /\ MatchesIdType(professor_id)
              /\ professor_id \notin DOMAIN professors
              /\ resp' = Response(404, TRUE)
              /\ UNCHANGED <<professors, courses>>
           \/ /\ MatchesIdType(professor_id)
              /\ professor_id \in DOMAIN professors
              /\ professors' = Del(professors, professor_id)
              /\ courses' = [k \in {c \in DOMAIN courses :
                                       courses[c].instructor.id # professor_id}
                                |-> courses[k]]
              /\ resp' = Response(204, TRUE)

delete_professor ==
    \E professor_id \in ProfIdInputs :
        /\ Idle
        /\ req' = Request("delete_professor", Some(professor_id), EmptyDict, EmptyDict)
        /\ UNCHANGED <<courses, now, threads>>
        /\ \/ /\ ~MatchesIdType(professor_id)
              /\ resp' = Response(422, FALSE)
              /\ UNCHANGED professors
           \/ /\ MatchesIdType(professor_id)
              /\ professor_id \notin DOMAIN professors
              /\ resp' = Response(404, TRUE)
              /\ UNCHANGED professors
           \/ /\ MatchesIdType(professor_id)
              /\ professor_id \in DOMAIN professors
              /\ professors' = Del(professors, professor_id)
              /\ resp' = Response(204, TRUE)

-----------------------------------------------------------------------------
(* main.py: course endpoints *)

\* any(c.courseID == course.courseID for c in courses.values())
CourseIdExists(store, id) == \E k \in DOMAIN store : store[k].courseID = id

\* What create_course answers before it builds the record
create_course_check(store, body) ==
    LET course == CourseCreate(body)
        early == Rejected(TRUE, course.kind)
    IN  IF early # 0 THEN early
        ELSE IF CourseIdExists(store, course.model.courseID) THEN 400
        ELSE 0

create_course ==
    \E body \in CourseBodies :
        LET course == CourseCreate(body)
            check == create_course_check(courses, body)
        IN  /\ Idle
            /\ req' = Request("create_course", None, body, EmptyDict)
            /\ UNCHANGED <<professors, threads>>
            /\ \/ /\ check # 0
                  /\ resp' = Response(check, check = 400)
                  /\ UNCHANGED <<courses, now>>
               \/ /\ check = 0
                  /\ \E t1 \in ClockRead(now) : \E t2 \in ClockRead(t1) :
                        LET new_course ==
                                CourseRead(course_model_dump(course.model), t1, t2)
                        IN  /\ now' = t2
                            /\ IF new_course.kind = "ok"
                               THEN /\ courses' = Put(courses,
                                                      new_course.model.courseID,
                                                      new_course.model)
                                    /\ resp' = Response(201, TRUE)
                               ELSE /\ courses' = courses
                                    /\ resp' = Response(500, TRUE)

\* The keys of the records list_courses returns
list_courses_results(store, q) ==
    { k \in DOMAIN store :
        /\ ("course_id" \in DOMAIN q /\ Truthy(q.course_id)
               => store[k].courseID = Val(q.course_id))
        /\ ("course_name" \in DOMAIN q /\ Truthy(q.course_name)
               => IsSubstring(lower(Val(q.course_name)), lower(store[k].courseName)))
        /\ ("instructor_id" \in DOMAIN q /\ Truthy(q.instructor_id)
               => store[k].instructor.id = Val(q.instructor_id)) }

\* course_id is an Optional[courseIDType]; course_name and instructor_id are
\* Optional[str]
list_courses ==
    \E q \in CourseQueries :
        /\ Idle
        /\ req' = Request("list_courses", None, EmptyDict, q)
        /\ resp' = IF "course_id" \in DOMAIN q /\ ~IsNone(q.course_id)
                      /\ ~MatchesCourseIDType(Val(q.course_id))
                   THEN Response(422, FALSE)
                   ELSE Response(200, TRUE)
        /\ UNCHANGED <<professors, courses, now, threads>>

\* The status of GET /courses/{course_id} and whether the handler ran
get_course_response(store, course_id) ==
    IF ~MatchesCourseIDType(course_id) THEN Response(422, FALSE)
    ELSE IF course_id \notin DOMAIN store THEN Response(404, TRUE)
    ELSE Response(200, TRUE)

get_course ==
    \E course_id \in CourseIdInputs :
        /\ Idle
        /\ req' = Request("get_course", Some(course_id), EmptyDict, EmptyDict)
        /\ resp' = get_course_response(courses, course_id)
        /\ UNCHANGED <<professors, courses, now, threads>>

\* main.py:155-161
MergedCourse(stored, update_dict, t) ==
    CourseRead(
        DictUpdate(DictUpdate(course_model_dump(stored), update_dict),
                   Only("updated_at", Some(t))),
        t, t)

update_course ==
    \E in \in CoursePatches :
        LET course_id == in[1]
            update_data == CourseUpdate(in[2])
            early == Rejected(MatchesCourseIDType(course_id), update_data.kind)
        IN  /\ Idle
            /\ req' = Request("update_course", Some(course_id), in[2], EmptyDict)
            /\ UNCHANGED <<professors, threads>>
            /\ \/ /\ early # 0
                  /\ resp' = Response(early, FALSE)
                  /\ UNCHANGED <<courses, now>>
               \/ /\ early = 0
                  /\ course_id \notin DOMAIN courses
                  /\ resp' = Response(404, TRUE)
                  /\ UNCHANGED <<courses, now>>
               \/ /\ early = 0
                  /\ course_id \in DOMAIN courses
                  /\ \E t \in ClockRead(now) :
                        LET updated_course ==
                                MergedCourse(courses[course_id], update_data.model, t)
                        IN  /\ now' = t
                            /\ IF updated_course.kind = "ok"
                               THEN /\ courses' = Put(courses, course_id,
                                                      updated_course.model)
                                    /\ resp' = Response(200, TRUE)
                               ELSE /\ courses' = courses
                                    /\ resp' = Response(500, TRUE)

delete_course ==
    \E course_id \in CourseIdInputs :
        /\ Idle
        /\ req' = Request("delete_course", Some(course_id), EmptyDict, EmptyDict)
        /\ UNCHANGED <<professors, now, threads>>
        /\ \/ /\ ~MatchesCourseIDType(course_id)
              /\ resp' = Response(422, FALSE)
              /\ UNCHANGED courses
           \/ /\ MatchesCourseIDType(course_id)
              /\ course_id \notin DOMAIN courses
              /\ resp' = Response(404, TRUE)
              /\ UNCHANGED courses
           \/ /\ MatchesCourseIDType(course_id)
              /\ course_id \in DOMAIN courses
              /\ courses' = Del(courses, course_id)
              /\ resp' = Response(204, TRUE)

\* The response is sent; the server takes the next request
send_response ==
    /\ ~Idle
    /\ req' = NoRequest
    /\ resp' = NoResponse
    /\ UNCHANGED <<professors, courses, now, threads>>

Next ==
    \/ create_professor
    \/ list_professors
    \/ get_professor
    \/ update_professor
    \/ delete_professor
    \/ create_course
    \/ list_courses
    \/ get_course
    \/ update_course
    \/ delete_course
    \/ send_response

Spec == Init /\ [][Next]_vars

-----------------------------------------------------------------------------
(* main.py: the professor handlers run by several threads at once. The      *)
(* requests are the ones FastAPI has validated; a thread takes one step of  *)
(* its handler at a time.                                                   *)

ConcCreateBodies == {Professor1, Professor2}

ConcPatches == {ProfId1, ProfId2} \X {EmptyDict, Only("id", Some(ProfId2))}

ConcIds == {ProfId1, ProfId2}

Goto(t, pc, status) ==
    threads' = [threads EXCEPT ![t].pc = pc, ![t].status = status]

\* a thread of the pool is given a request
begin_request(t) ==
    /\ threads[t].pc = "idle"
    /\ \/ \E body \in ConcCreateBodies :
             threads' = [threads EXCEPT ![t] =
                 [IdleThread EXCEPT !.pc = "scan", !.op = "create_professor",
                                    !.body = body]]
       \/ \E in \in ConcPatches :
             threads' = [threads EXCEPT ![t] =
                 [IdleThread EXCEPT !.pc = "check", !.op = "update_professor",
                                    !.path = Some(in[1]), !.body = in[2]]]
       \/ \E id \in ConcIds :
             threads' = [threads EXCEPT ![t] =
                 [IdleThread EXCEPT !.pc = "check", !.op = "delete_professor",
                                    !.path = Some(id)]]
    /\ UNCHANGED <<professors, courses, now, req, resp>>

\* create_professor, lines 39-43: the scan
create_professor_scan(t) ==
    /\ threads[t].op = "create_professor" /\ threads[t].pc = "scan"
    /\ IF ProfessorIdExists(professors, ProfessorCreate(threads[t].body).model.id)
       THEN Goto(t, "done", 400)
       ELSE Goto(t, "insert", 0)
    /\ UNCHANGED <<professors, courses, now, req, resp>>

\* create_professor, lines 44-46: build the record and insert it
create_professor_insert(t) ==
    /\ threads[t].op = "create_professor" /\ threads[t].pc = "insert"
    /\ \E t1 \in ClockRead(now) : \E t2 \in ClockRead(t1) :
          LET professor == ProfessorCreate(threads[t].body)
              new_professor == ProfessorRead(model_dump(professor.model), t1, t2)
          IN  /\ now' = t2
              /\ professors' = Put(professors, new_professor.model.id,
                                   new_professor.model)
              /\ Goto(t, "done", 201)
    /\ UNCHANGED <<courses, req, resp>>

\* update_professor, lines 79-80: the presence check
update_professor_check(t) ==
    /\ threads[t].op = "update_professor" /\ threads[t].pc = "check"
    /\ IF Val(threads[t].path) \notin DOMAIN professors
       THEN Goto(t, "done", 404)
       ELSE Goto(t, "read", 0)
    /\ UNCHANGED <<professors, courses, now, req, resp>>

\* update_professor, line 82: professors[professor_id].model_dump(); a
\* KeyError when the key has gone is answered 500
update_professor_read(t) ==
    /\ threads[t].op = "update_professor" /\ threads[t].pc = "read"
    /\ IF Val(threads[t].path) \notin DOMAIN professors
       THEN Goto(t, "done", 500)
       ELSE threads' = [threads EXCEPT
                ![t].pc = "write",
                ![t].local = model_dump(professors[Val(threads[t].path)])]
    /\ UNCHANGED <<professors, courses, now, req, resp>>

\* A variant of the write that compares the stored record with the one read
\* at line 82 and answers 409 when another request has changed it meanwhile
update_professor_write_Versioned(t) ==
    /\ threads[t].op = "update_professor" /\ threads[t].pc = "write"
    /\ \E t1 \in ClockRead(now) :
          LET key == Val(threads[t].path)
              update_dict == ProfessorUpdate(threads[t].body).model
              updated_professor ==
                  ProfessorRead(DictUpdate(DictUpdate(threads[t].local, update_dict),
                                           Only("updated_at", Some(t1))),
                                t1, t1)
              stale == \/ key \notin DOMAIN professors
                       \/ model_dump(professors[key]) # threads[t].local
          IN  /\ now' = t1
              /\ IF stale
                 THEN /\ professors' = professors
                      /\ Goto(t, "done", 409)
                 ELSE /\ professors' = Put(professors, key, updated_professor.model)
                      /\ Goto(t, "done", 200)
    /\ UNCHANGED <<courses, req, resp>>

\* update_professor, lines 83-91: merge, validate, write
update_professor_write(t) ==
    /\ threads[t].op = "update_professor" /\ threads[t].pc = "write"
    /\ \E t1 \in ClockRead(now) :
          LET update_dict == ProfessorUpdate(threads[t].body).model
              updated_professor ==
                  ProfessorRead(DictUpdate(DictUpdate(threads[t].local, update_dict),
                                           Only("updated_at", Some(t1))),
                                t1, t1)
          IN  /\ now' = t1
              /\ IF updated_professor.kind = "ok"
                 THEN /\ professors' = Put(professors, Val(threads[t].path),
                                           updated_professor.model)
                      /\ Goto(t, "done", 200)
                 ELSE /\ professors' = professors
                      /\ Goto(t, "done", 500)
    /\ UNCHANGED <<courses, req, resp>>

\* delete_professor, lines 97-98: the presence check
delete_professor_check(t) ==
    /\ threads[t].op = "delete_professor" /\ threads[t].pc = "check"
    /\ IF Val(threads[t].path) \notin DOMAIN professors
       THEN Goto(t, "done", 404)
       ELSE Goto(t, "remove", 0)
    /\ UNCHANGED <<professors, courses, now, req, resp>>

\* delete_professor, line 99: del professors[professor_id]; a KeyError when
\* the key has gone is answered 500
delete_professor_remove(t) ==
    /\ threads[t].op = "delete_professor" /\ threads[t].pc = "remove"
    /\ IF Val(threads[t].path) \notin DOMAIN professors
       THEN /\ professors' = professors
            /\ Goto(t, "done", 500)
       ELSE /\ professors' = Del(professors, Val(threads[t].path))
            /\ Goto(t, "done", 204)
    /\ UNCHANGED <<courses, now, req, resp>>

\* the answer is sent and the thread goes back to the pool
end_request(t) ==
    /\ threads[t].pc = "done"
    /\ threads' = [threads EXCEPT ![t] = IdleThread]
    /\ UNCHANGED <<professors, courses, now, req, resp>>

ConcNext ==
    \E t \in Threads :
        \/ begin_request(t)
        \/ create_professor_scan(t)
        \/ create_professor_insert(t)
        \/ update_professor_check(t)
        \/ update_professor_read(t)
        \/ update_professor_write(t)
        \/ delete_professor_check(t)
        \/ delete_professor_remove(t)
        \/ end_request(t)

ConcSpec == Init /\ [][ConcNext]_vars

-----------------------------------------------------------------------------
(* Reading the request handled last *)

Handled(op) == req.op = op

\* The step handles a request `op` (the server was idle before it)
Handles(op) == Idle /\ req'.op = op

-----------------------------------------------------------------------------
(* C1 *)

UniqueProfessorIds ==
    \A k1, k2 \in DOMAIN professors :
        k1 # k2 => professors[k1].id # professors[k2].id

UniqueCourseIds ==
    \A k1, k2 \in DOMAIN courses :
        k1 # k2 => courses[k1].courseID # courses[k2].courseID

\* C1: in every reachable state no two professor records have the same id
\* field and no two course records have the same courseID field, also after
\* updates whose payload supplies id / courseID.
C1_UniqueIds == UniqueProfessorIds /\ UniqueCourseIds

-----------------------------------------------------------------------------
(* C2 *)

\* C2: in every reachable state every professor is stored under the key equal
\* to its id field and every course under the key equal to its courseID, so
\* that a get(k) that succeeds returns a record whose id is k and the scan of
\* the create handlers agrees with key membership.
C2_KeyIsId ==
    /\ \A k \in DOMAIN professors : professors[k].id = k
    /\ \A k \in DOMAIN courses : courses[k].courseID = k
    /\ \A id \in ProfIdInputs :
          ProfessorIdExists(professors, id) <=> id \in DOMAIN professors
    /\ \A id \in CourseIdInputs :
          CourseIdExists(courses, id) <=> id \in DOMAIN courses

-----------------------------------------------------------------------------
(* C3 *)

\* C3: after a successful delete(id), get(id) fails with NotFound, and a
\* create with a valid payload carrying that id succeeds: it is answered
\* neither by a rejection nor by Conflict, and the record it stores is a fresh
\* one (C4 states what that record holds).
C3_DeleteThenCreate ==
    Handled("delete_professor") /\ resp.status = 204 =>
        LET id == Val(req.path)
        IN  /\ get_professor_response(professors, id).status = 404
            /\ \A body \in ProfessorBodies :
                  ProfessorCreate(body).kind = "ok"
                  /\ ProfessorCreate(body).model.id = id
                      => create_professor_check(professors, body) = 0

-----------------------------------------------------------------------------
(* C4 *)

\* C4: for every valid professor payload p whose id no stored record has,
\* create(p) returns 201 and get(p.id) then returns a record with p's
\* first_name, last_name, id, email and courses and with created_at equal to
\* updated_at.
C4_CreateThenGet ==
    [][Handles("create_professor")
       /\ ProfessorCreate(req'.body).kind = "ok"
       /\ ~ProfessorIdExists(professors, ProfessorCreate(req'.body).model.id)
       => LET p == ProfessorCreate(req'.body).model
          IN  /\ resp'.status = 201
              /\ get_professor_response(professors', p.id).status = 200
              /\ professors'[p.id].first_name = p.first_name
              /\ professors'[p.id].last_name = p.last_name
              /\ professors'[p.id].id = p.id
              /\ professors'[p.id].email = p.email
              /\ professors'[p.id].courses = p.courses
              /\ professors'[p.id].created_at = professors'[p.id].updated_at
      ]_vars

-----------------------------------------------------------------------------
(* C5 *)

\* The identifiers a request carries, where a client can supply one
SuppliedProfessorIds(r) ==
    (IF r.op \in {"get_professor", "update_professor", "delete_professor"}
     THEN {Val(r.path)} ELSE {})
    \cup (IF r.op \in {"create_professor", "update_professor"} /\ Has(r.body, "id")
          THEN {Val(r.body.id)} ELSE {})
    \cup (IF r.op = "list_professors" /\ Has(r.query, "id")
          THEN {Val(r.query.id)} ELSE {})
    \cup (IF r.op = "list_courses" /\ Has(r.query, "instructor_id")
          THEN {Val(r.query.instructor_id)} ELSE {})
    \cup (IF r.op \in {"create_course", "update_course"}
             /\ Has(r.body, "instructor") /\ Has(Val(r.body.instructor), "id")
          THEN {Val(Val(r.body.instructor).id)} ELSE {})

SuppliedCourseIds(r) ==
    (IF r.op \in {"get_course", "update_course", "delete_course"}
     THEN {Val(r.path)} ELSE {})
    \cup (IF r.op \in {"create_course", "update_course"} /\ Has(r.body, "courseID")
          THEN {Val(r.body.courseID)} ELSE {})
    \cup (IF r.op = "list_courses" /\ Has(r.query, "course_id")
          THEN {Val(r.query.course_id)} ELSE {})

MalformedId(r) ==
    \/ \E id \in SuppliedProfessorIds(r) : ~MatchesIdType(id)
    \/ \E id \in SuppliedCourseIds(r) : ~MatchesCourseIDType(id)

\* C5: a request carrying a malformed professor id or course ID in a path
\* parameter, a body field or a query filter ends in a validation failure,
\* and the handler never touches the store.
C5_MalformedIdRejected ==
    ~Idle /\ MalformedId(req) => resp.status = 422 /\ ~resp.accessed

-----------------------------------------------------------------------------
(* C6 *)

\* C6: a create whose payload the input model accepts and whose id (courseID)
\* equals the id (courseID) field of a stored record is answered 400 and
\* leaves both stores as they were.
C6_DuplicateCreateConflict ==
    [][/\ Handles("create_professor")
          /\ ProfessorCreate(req'.body).kind = "ok"
          /\ (\E k \in DOMAIN professors :
                 professors[k].id = ProfessorCreate(req'.body).model.id)
          => resp'.status = 400 /\ professors' = professors /\ courses' = courses
       /\ Handles("create_course")
          /\ CourseCreate(req'.body).kind = "ok"
          /\ (\E k \in DOMAIN courses :
                 courses[k].courseID = CourseCreate(req'.body).model.courseID)
          => resp'.status = 400 /\ professors' = professors /\ courses' = courses
      ]_vars

\* a create answered Conflict while both stores hold records
C6_Witness ==
    /\ Handled("create_professor")
    /\ resp.status = 400
    /\ \E k \in DOMAIN professors : professors[k].id = Val(req.body.id)
    /\ DOMAIN courses # {}

-----------------------------------------------------------------------------
(* C7 *)

\* C7: update(id, {}) of a stored key is answered 200, sets updated_at to the
\* time the handler read, and leaves every other field of the record, every
\* other record and the other store unchanged.
C7_EmptyPatch ==
    [][/\ Handles("update_professor")
          /\ DOMAIN req'.body = {}
          /\ Val(req'.path) \in DOMAIN professors
          => LET id == Val(req'.path)
             IN  /\ resp'.status = 200
                 /\ now' >= now
                 /\ DOMAIN professors' = DOMAIN professors
                 /\ professors'[id] = [professors[id] EXCEPT !.updated_at = now']
                 /\ \A k \in DOMAIN professors \ {id} :
                       professors'[k] = professors[k]
                 /\ courses' = courses
       /\ Handles("update_course")
          /\ DOMAIN req'.body = {}
          /\ Val(req'.path) \in DOMAIN courses
          => LET id == Val(req'.path)
             IN  /\ resp'.status = 200
                 /\ now' >= now
                 /\ DOMAIN courses' = DOMAIN courses
                 /\ courses'[id] = [courses[id] EXCEPT !.updated_at = now']
                 /\ \A k \in DOMAIN courses \ {id} : courses'[k] = courses[k]
                 /\ professors' = professors
      ]_vars

\* an empty patch moved updated_at past created_at
C7_Witness ==
    /\ Handled("update_professor")
    /\ DOMAIN req.body = {}
    /\ resp.status = 200
    /\ professors[Val(req.path)].updated_at > professors[Val(req.path)].created_at
    /\ Cardinality(DOMAIN professors) = 2

-----------------------------------------------------------------------------
(* C8 *)

\* C8: an update of a stored key whose body the update model rejects (an
\* invalid email), or whose merge with the stored record is no valid record,
\* is answered with an error and leaves the stored record, its updated_at
\* included, and the rest of both stores unchanged.
C8_FailedUpdate ==
    [][/\ Handles("update_professor") /\ Val(req'.path) \in DOMAIN professors
          => LET update_data == ProfessorUpdate(req'.body)
                 merged == DictUpdate(model_dump(professors[Val(req'.path)]),
                                      update_data.model)
             IN  update_data.kind # "ok" \/ ProfessorBase(merged).kind # "ok"
                 => /\ resp'.status \in {422, 500}
                    /\ professors' = professors
                    /\ courses' = courses
       /\ Handles("update_course") /\ Val(req'.path) \in DOMAIN courses
          => LET update_data == CourseUpdate(req'.body)
                 merged == DictUpdate(course_model_dump(courses[Val(req'.path)]),
                                      update_data.model)
             IN  update_data.kind # "ok" \/ CourseBase(merged).kind # "ok"
                 => /\ resp'.status \in {422, 500}
                    /\ professors' = professors
                    /\ courses' = courses
      ]_vars

\* the handler merged a patch into a stored record and the result was no
\* valid record
C8_Witness ==
    /\ Handled("update_professor")
    /\ Val(req.path) \in DOMAIN professors
    /\ "first_name" \in DOMAIN req.body
    /\ resp.status = 500
    /\ resp.accessed

-----------------------------------------------------------------------------
(* C9 *)

\* C9: with a clock that never goes back, every record of either store has
\* updated_at >= created_at, and an update changes no record's created_at.
C9_Timestamps ==
    [][/\ \A k \in DOMAIN professors' :
             professors'[k].updated_at >= professors'[k].created_at
       /\ \A k \in DOMAIN courses' :
             courses'[k].updated_at >= courses'[k].created_at
       /\ Handles("update_professor")
          => \A k \in (DOMAIN professors) \cap (DOMAIN professors') :
                professors'[k].created_at = professors[k].created_at
       /\ Handles("update_course")
          => \A k \in (DOMAIN courses) \cap (DOMAIN courses') :
                courses'[k].created_at = courses[k].created_at
      ]_vars

\* a patch naming created_at was applied to a record created after time 0
C9_Witness ==
    /\ Handled("update_professor")
    /\ "created_at" \in DOMAIN req.body
    /\ resp.status = 200
    /\ professors[Val(req.path)].created_at > 0

-----------------------------------------------------------------------------
(* C10 *)

\* C10: with the handlers' steps interleaved, a key goes from absent to
\* present only by the insert of a create that is answered 201; no update and
\* no delete makes an absent key present.
C10_OnlyCreateMakesPresent ==
    [][\A k \in ConcIds :
          k \notin DOMAIN professors /\ k \in DOMAIN professors'
          => \E t \in Threads :
                /\ threads[t].op = "create_professor"
                /\ threads[t].pc = "insert"
                /\ threads'[t].pc = "done"
                /\ threads'[t].status = 201
      ]_vars

-----------------------------------------------------------------------------
(* C11 *)

\* The record update_professor builds at lines 83-89 from what thread t read
\* at line 82, its body, and utcnow() = t1
C11_Merged(t, t1) ==
    ProfessorRead(
        DictUpdate(DictUpdate(threads[t].local, ProfessorUpdate(threads[t].body).model),
                   Only("updated_at", Some(t1))),
        t1, t1).model

\* C11: with the steps of the handlers interleaved, an update of a stored key
\* is never turned away and never notices another request: its presence check
\* passes, its read takes the record stored at that moment, and its write is
\* answered 200 and stores under the key exactly the record merged from what
\* it had read, leaving every other key alone -- so after two updates of one
\* key the record is the one written last, whatever the other had written.
C11_LastWriteWins ==
    [][\A t \in Threads :
          /\ threads[t].op = "update_professor"
          /\ threads'[t] # threads[t]
          /\ Val(threads[t].path) \in DOMAIN professors
          => LET key == Val(threads[t].path)
             IN  /\ threads[t].pc = "check" => threads'[t].pc = "read"
                 /\ threads[t].pc = "read"
                    => /\ threads'[t].pc = "write"
                       /\ threads'[t].local = model_dump(professors[key])
                 /\ threads[t].pc = "write"
                    => /\ threads'[t].pc = "done"
                       /\ threads'[t].status = 200
                       /\ professors' = Put(professors, key, C11_Merged(t, now'))
      ]_vars

\* both threads updated key ab1 from the same read, one with {id: cd2} and the
\* other with {}; both were answered 200 and the record stored is the one of
\* the empty update, which wrote last: the id change is lost
C11_Witness ==
    \E t, u \in Threads :
        /\ t # u
        /\ threads[t].op = "update_professor" /\ threads[u].op = "update_professor"
        /\ threads[t].path = Some(ProfId1) /\ threads[u].path = Some(ProfId1)
        /\ threads[t].pc = "done" /\ threads[u].pc = "done"
        /\ threads[t].status = 200 /\ threads[u].status = 200
        /\ "id" \in DOMAIN threads[t].body
        /\ DOMAIN threads[u].body = {}
        /\ threads[t].local = threads[u].local
        /\ ProfId1 \in DOMAIN professors
        /\ professors[ProfId1].id = ProfId1

-----------------------------------------------------------------------------
(* C12 *)

\* C12: a request to create, update or delete a professor leaves the course
\* store as it was, the instructor copy inside every course included; a
\* request to create, update or delete a course leaves the professor store as
\* it was, every professor's courses list included.
C12_StoresAreSeparate ==
    [][/\ (Handles("create_professor") \/ Handles("update_professor")
              \/ Handles("delete_professor"))
          => courses' = courses
       /\ (Handles("create_course") \/ Handles("update_course")
              \/ Handles("delete_course"))
          => professors' = professors
      ]_vars

\* a professor was deleted and a course whose instructor has that id is still
\* stored
C12_Witness ==
    /\ Handled("delete_professor")
    /\ resp.status = 204
    /\ \E c \in DOMAIN courses : courses[c].instructor.id = Val(req.path)

-----------------------------------------------------------------------------
(* C13 *)

\* The query gives the filter f; blank tells whether a parameter given with
\* an empty value counts as a filter
C13_Supplied(q, f, blank) ==
    /\ f \in DOMAIN q
    /\ ~IsNone(q[f])
    /\ blank \/ Len(Val(q[f])) > 0

\* The keys of the professors that satisfy every filter of the query
C13_Professors(store, q, blank) ==
    { k \in DOMAIN store :
        /\ C13_Supplied(q, "first_name", blank)
              => lower(store[k].first_name) = lower(Val(q.first_name))
        /\ C13_Supplied(q, "last_name", blank)
              => lower(store[k].last_name) = lower(Val(q.last_name))
        /\ C13_Supplied(q, "id", blank) => store[k].id = Val(q.id) }

\* The keys of the courses that satisfy every filter of the query
C13_Courses(store, q, blank) ==
    { k \in DOMAIN store :
        /\ C13_Supplied(q, "course_id", blank)
              => store[k].courseID = Val(q.course_id)
        /\ C13_Supplied(q, "course_name", blank)
              => IsSubstring(lower(Val(q.course_name)), lower(store[k].courseName))
        /\ C13_Supplied(q, "instructor_id", blank)
              => store[k].instructor.id = Val(q.instructor_id) }

C13_Lists(blank) ==
    /\ Handles("list_professors")
       => /\ professors' = professors
          /\ courses' = courses
          /\ list_professors_results(professors', req'.query)
                = C13_Professors(professors, req'.query, blank)
    /\ Handles("list_courses") /\ resp'.status = 200
       => /\ professors' = professors
          /\ courses' = courses
          /\ list_courses_results(courses', req'.query)
                = C13_Courses(courses, req'.query, blank)

-----------------------------------------------------------------------------
(* C14 *)

\* The step handles a get, an update whose body the update model accepts, or
\* a delete, addressed to a well-formed id that is no key of the store
C14_ProfessorTargetAbsent ==
    /\ \/ Handles("get_professor")
       \/ Handles("delete_professor")
       \/ Handles("update_professor") /\ ProfessorUpdate(req'.body).kind = "ok"
    /\ MatchesIdType(Val(req'.path))
    /\ Val(req'.path) \notin DOMAIN professors

C14_CourseTargetAbsent ==
    /\ \/ Handles("get_course")
       \/ Handles("delete_course")
       \/ Handles("update_course") /\ CourseUpdate(req'.body).kind = "ok"
    /\ MatchesCourseIDType(Val(req'.path))
    /\ Val(req'.path) \notin DOMAIN courses

\* C14: get, update and delete addressed to a well-formed id that is no key
\* of the store are answered 404 and change neither store; delete addressed
\* to a key of the store is answered 204 and removes that key only: every
\* other record of the store, and the other store, stay as they were.
C14_NotFoundAndDelete ==
    [][/\ C14_ProfessorTargetAbsent \/ C14_CourseTargetAbsent
          => /\ resp'.status = 404
             /\ professors' = professors
             /\ courses' = courses
       /\ Handles("delete_professor") /\ Val(req'.path) \in DOMAIN professors
          => /\ resp'.status = 204
             /\ DOMAIN professors' = (DOMAIN professors) \ {Val(req'.path)}
             /\ \A k \in DOMAIN professors' : professors'[k] = professors[k]
             /\ courses' = courses
       /\ Handles("delete_course") /\ Val(req'.path) \in DOMAIN courses
          => /\ resp'.status = 204
             /\ DOMAIN courses' = (DOMAIN courses) \ {Val(req'.path)}
             /\ \A k \in DOMAIN courses' : courses'[k] = courses[k]
             /\ professors' = professors
      ]_vars

\* a professor was deleted, another professor is still stored, and the same
\* delete sent again would now find no record
C14_Witness ==
    /\ Handled("delete_professor")
    /\ resp.status = 204
    /\ Val(req.path) \notin DOMAIN professors
    /\ DOMAIN professors # {}

-----------------------------------------------------------------------------
(* C15 *)

\* C15: a create answered 201 replaces and removes nothing: every record
\* stored before it is stored after it under the same key with the same
\* contents, and the store has one record more than before.
C15_CreateKeepsRecords ==
    [][/\ Handles("create_professor") /\ resp'.status = 201
          => /\ \A k \in DOMAIN professors :
                   k \in DOMAIN professors' /\ professors'[k] = professors[k]
             /\ Cardinality(DOMAIN professors') = Cardinality(DOMAIN professors) + 1
       /\ Handles("create_course") /\ resp'.status = 201
          => /\ \A k \in DOMAIN courses :
                   k \in DOMAIN courses' /\ courses'[k] = courses[k]
             /\ Cardinality(DOMAIN courses') = Cardinality(DOMAIN courses) + 1
      ]_vars

-----------------------------------------------------------------------------
(* C16 *)

\* C16: every request is answered with success (200, 201, 204) or with one of
\* the three error kinds: ValidationError (422), Conflict (400), NotFound
\* (404); no request, and none whose payload the input model accepted, ends
\* in another failure.
C16_OnlyThreeErrorKinds ==
    ~Idle => resp.status \in {200, 201, 204, 422, 400, 404}

-----------------------------------------------------------------------------
(* C17 *)

\* Thread u has inserted the id that thread t, past its scan, is about to
\* insert: both creates found the id fresh
C17_LostRace(t, u) ==
    /\ u # t
    /\ threads[t].op = "create_professor" /\ threads[t].pc = "insert"
    /\ threads[u].op = "create_professor" /\ threads[u].pc = "done"
    /\ threads[u].status = 201
    /\ ProfessorCreate(threads[u].body).model.id
          = ProfessorCreate(threads[t].body).model.id
    /\ \E k \in DOMAIN professors :
          professors[k].id = ProfessorCreate(threads[t].body).model.id

\* C17: of two creates of one fresh id whose steps interleave between scan
\* and insert, one at most is answered 201: the one that comes to its insert
\* after the other was answered 201 is answered 400 (Conflict) and the record
\* stored stays the one of the request answered 201.
C17_OneCreateWins ==
    [][\A t, u \in Threads :
          C17_LostRace(t, u) /\ threads'[t] # threads[t]
          => /\ threads'[t].status = 400
             /\ professors' = professors
      ]_vars

====
